---------------------------- MODULE Spec2Model ----------------------------
(***************************************************************************)
(* A model of csv_analyzer.py (Unreal Engine CSV -> Excel report).         *)
(*                                                                         *)
(* Python strings are modelled as sequences of one-character strings, so   *)
(* that splitting, stripping, replacing and formatting are computed        *)
(* character by character as the code computes them.  The non-breaking     *)
(* space U+00A0 is the one-element token NBSP.                             *)
(*                                                                         *)
(* Each component of the program has its own specification:                *)
(*   SpecNorm  _normalize_numeric_cell          (pure function)            *)
(*   SpecLoad  load_csv, primary line-by-line strategy                     *)
(*   SpecFind  find_column                      (pure function)            *)
(*   SpecName  parse_filename                   (pure function)            *)
(*   SpecMain  main: the per-file loop and the report, run twice over the  *)
(*             same directory with two glob orders                         *)
(*   SpecFmt   format_number                    (pure function)            *)
(***************************************************************************)
EXTENDS Integers, Sequences, FiniteSets, TLC

VARIABLES
    pc,          \* position of the component under check
    val,         \* _normalize_numeric_cell: the argument
    out,         \* _normalize_numeric_cell(val)
    out2,        \* _normalize_numeric_cell(out)
    text,        \* load_csv: the file's characters from the header line on
    lines,       \* load_csv: f.readlines()[header_idx:]
    sep,         \* load_csv: the detected delimiter
    header_cols, \* load_csv: the header's column names
    max_cols,    \* load_csv: len(header_cols)
    line_no,     \* load_csv: the index in lines of the next data line
    data_rows,   \* load_csv: the rows parsed so far
    df,          \* load_csv: the table returned
    columns,     \* find_column: df.columns
    candidates,  \* find_column: the aliases, in priority order
    found,       \* find_column: the result
    path_name,   \* parse_filename: path.name
    identity,    \* parse_filename: the (scene, variant, run) returned
    csv_files,   \* main: the glob's list of files, per execution
    unloadable,  \* main: the files load_csv raises on
    file_idx,    \* main: the loop's position in csv_files, per execution
    runs,        \* main: the records of the files processed, per execution
    report,      \* main: the workbook's sheets, per execution
    label,       \* format_number: the row label
    value,       \* format_number: the value
    formatted    \* format_number: the result

normVars == <<val, out, out2>>

loadVars == <<text, lines, sep, header_cols, max_cols, line_no, data_rows, df>>

findVars == <<columns, candidates, found>>

nameVars == <<path_name, identity>>

mainVars == <<csv_files, unloadable, file_idx, runs, report>>

fmtVars == <<label, value, formatted>>

vars == <<pc, normVars, loadVars, findVars, nameVars, mainVars, fmtVars>>

\* the variables of a component that is not the one under check
IdleNorm == val = <<>> /\ out = <<>> /\ out2 = <<>>

IdleLoad ==
    /\ text = <<>> /\ lines = <<>> /\ sep = "" /\ header_cols = <<>>
    /\ max_cols = 0 /\ line_no = 0 /\ data_rows = <<>> /\ df = <<>>

IdleFind == columns = <<>> /\ candidates = <<>> /\ found = <<>>

IdleName == path_name = <<>> /\ identity = <<>>

IdleMain ==
    /\ csv_files = <<>> /\ unloadable = {} /\ file_idx = <<>>
    /\ runs = <<>> /\ report = <<>>

IdleFmt == label = "" /\ value = <<>> /\ formatted = <<>>

---------------------------------------------------------------------------
(* Characters and the str methods the program uses.                        *)

NBSP == "NBSP"

Digits == {"0", "1", "2", "3", "4", "5", "6", "7", "8", "9"}

\* str.strip() with no argument strips these (of the characters modelled)
Whitespace == {" ", "\t", "\n"}

Max(S) == CHOOSE x \in S : \A y \in S : y <= x

Min(S) == CHOOSE x \in S : \A y \in S : x <= y

RECURSIVE LStrip(_, _)
LStrip(s, chars) ==
    IF s = <<>> THEN <<>>
    ELSE IF Head(s) \in chars THEN LStrip(Tail(s), chars) ELSE s

RECURSIVE RStrip(_, _)
RStrip(s, chars) ==
    IF s = <<>> THEN <<>>
    ELSE IF s[Len(s)] \in chars THEN RStrip(SubSeq(s, 1, Len(s) - 1), chars) ELSE s

\* str.strip(chars)
StripChars(s, chars) == RStrip(LStrip(s, chars), chars)

\* str.strip()
Strip(s) == StripChars(s, Whitespace)

\* str.replace(a, t) for a one-character a; t is a string, possibly empty
RECURSIVE Replace(_, _, _)
Replace(s, a, t) ==
    IF s = <<>> THEN <<>>
    ELSE (IF Head(s) = a THEN t ELSE <<Head(s)>>) \o Replace(Tail(s), a, t)

\* str.count(a)
Count(s, a) == Cardinality({i \in DOMAIN s : s[i] = a})

\* a in s, for a one-character a
HasChar(s, a) == \E i \in DOMAIN s : s[i] = a

\* str.rfind(a): the 0-based index of the last a, -1 when there is none
RFind(s, a) ==
    IF HasChar(s, a) THEN Max({i \in DOMAIN s : s[i] = a}) - 1 ELSE -1

\* str.split(a): the parts between the occurrences of a
RECURSIVE Split(_, _)
Split(s, a) ==
    IF ~HasChar(s, a) THEN <<s>>
    ELSE LET i == Min({j \in DOMAIN s : s[j] = a})
         IN  <<SubSeq(s, 1, i - 1)>> \o Split(SubSeq(s, i + 1, Len(s)), a)

\* ''.join(parts)
RECURSIVE Join(_)
Join(parts) ==
    IF parts = <<>> THEN <<>> ELSE Head(parts) \o Join(Tail(parts))

\* str.isdigit()
IsDigitStr(s) == s /= <<>> /\ \A i \in DOMAIN s : s[i] \in Digits

\* any(ch.isdigit() for ch in s)
HasDigit(s) == \E i \in DOMAIN s : s[i] \in Digits

Range(s) == {s[i] : i \in DOMAIN s}

\* the strings over alphabet of length at most n
RECURSIVE StringsUpTo(_, _)
StringsUpTo(alphabet, n) ==
    IF n = 0 THEN {<<>>}
    ELSE LET shorter == StringsUpTo(alphabet, n - 1)
         IN  shorter \cup {Append(s, c) : s \in shorter, c \in alphabet}

---------------------------------------------------------------------------
(* _normalize_numeric_cell                                                 *)

\* a variant of ResolveSeparators that takes '.' for the decimal marker whenever
\* both occur, whichever comes last
ResolveSeparatorsDotOnly(s) ==
    IF HasChar(s, ".") /\ HasChar(s, ",") THEN Replace(s, ",", <<>>)
    ELSE IF HasChar(s, ",") /\ Count(s, ",") = 1 THEN Replace(s, ",", <<".">>)
    ELSE s

\* lines 66-86: which of '.' and ',' is the decimal marker
ResolveSeparators(s) ==
    IF HasChar(s, ".") /\ HasChar(s, ",") THEN
        IF RFind(s, ",") > RFind(s, ".")
        THEN Replace(Replace(s, ".", <<>>), ",", <<".">>)
        ELSE Replace(s, ",", <<>>)
    ELSE IF HasChar(s, ",") /\ ~HasChar(s, ".") THEN
        IF Count(s, ",") = 1
        THEN Replace(s, ",", <<".">>)
        ELSE LET parts == Split(s, ",")
                 n     == Len(parts)
             IN  IF IsDigitStr(parts[n])
                 THEN Replace(Join(SubSeq(parts, 1, n - 1)), ".", <<>>)
                          \o <<".">> \o parts[n]
                 ELSE Replace(s, ",", <<>>)
    ELSE s

\* lines 52-91, for a str argument
_normalize_numeric_cell(v) ==
    LET s0 == Strip(Replace(v, NBSP, <<" ">>))
    IN  IF s0 = <<>> THEN v
        ELSE LET signed == Head(s0) \in {"+", "-"}
                 sign   == IF signed THEN <<Head(s0)>> ELSE <<>>
                 s1     == IF signed THEN Tail(s0) ELSE s0
                 s2     == Replace(s1, " ", <<>>)
             IN  IF HasDigit(s2)
                 THEN sign \o Replace(ResolveSeparators(s2), "'", <<>>)
                 ELSE s2

\* the cells the normalizer is applied to
MaxCellLen == 4

CellAlphabet == {"1", ".", ",", "-", "+", " ", "'", "a", NBSP, "\t"}

\* the examples of the documentation, 12.345,678  12,345.678  3,141, and
\* -1 234,5  1,234,567  1'000  -1.234,5
ExampleCells ==
    { <<"1", "2", ".", "3", "4", "5", ",", "6", "7", "8">>,
      <<"-", "1", ".", "2", "3", "4", ",", "5">>,
      <<"1", "2", ",", "3", "4", "5", ".", "6", "7", "8">>,
      <<"3", ",", "1", "4", "1">>,
      <<"-", "1", NBSP, "2", "3", "4", ",", "5">>,
      <<"1", ",", "2", "3", "4", ",", "5", "6", "7">>,
      <<"\t", "1", "'", "0", "0", "0", " ">> }

InitNorm ==
    /\ pc = "norm_start"
    /\ val \in StringsUpTo(CellAlphabet, MaxCellLen) \cup ExampleCells
    /\ out = <<>>
    /\ out2 = <<>>
    /\ IdleLoad /\ IdleFind /\ IdleName /\ IdleMain /\ IdleFmt

notNormVars == <<loadVars, findVars, nameVars, mainVars, fmtVars>>

\* one call of the normalizer on the cell
Normalize ==
    /\ pc = "norm_start"
    /\ out' = _normalize_numeric_cell(val)
    /\ pc' = "norm_once"
    /\ UNCHANGED <<val, out2, notNormVars>>

\* the normalizer applied to its own output
Renormalize ==
    /\ pc = "norm_once"
    /\ out2' = _normalize_numeric_cell(out)
    /\ pc' = "norm_done"
    /\ UNCHANGED <<val, out, notNormVars>>

NextNorm == Normalize \/ Renormalize

SpecNorm == InitNorm /\ [][NextNorm]_vars

---------------------------------------------------------------------------
(* Properties of _normalize_numeric_cell                                   *)

\* s without its characters c
Delete(s, c) == SelectSeq(s, LAMBDA x : x /= c)

\* s with b for every a
Subst(s, a, b) == [i \in DOMAIN s |-> IF s[i] = a THEN b ELSE s[i]]

Normalized == pc \in {"norm_once", "norm_done"}

\* C3: a cell without any digit is returned unchanged
C3_NoDigitUnchanged == (Normalized /\ ~HasDigit(val)) => out = val

\* C4: normalizing the result of a normalization gives that result again
C4_Idempotent == pc = "norm_done" => out2 = out

\* the cell as the rules see it: NBSP and surrounding whitespace gone, the sign
\* apart, the inner spaces gone
Trimmed == Strip(Subst(val, NBSP, " "))

SignOfCell == IF Trimmed /= <<>> /\ Trimmed[1] \in {"+", "-"} THEN <<Trimmed[1]>> ELSE <<>>

BodyOfCell == Delete(SubSeq(Trimmed, Len(SignOfCell) + 1, Len(Trimmed)), " ")

LastCommaAfterLastDot ==
    \E i \in DOMAIN BodyOfCell :
        /\ BodyOfCell[i] = ","
        /\ \A j \in DOMAIN BodyOfCell : BodyOfCell[j] = "." => j < i

LastDotAfterLastComma ==
    \E i \in DOMAIN BodyOfCell :
        /\ BodyOfCell[i] = "."
        /\ \A j \in DOMAIN BodyOfCell : BodyOfCell[j] = "," => j < i

\* C5: in a cell with a digit, when '.' and ',' both occur and the last ',' is
\* after the last '.', every '.' is deleted and every ',' becomes '.'; when both
\* occur and the last '.' is after the last ',', every ',' is deleted; when there
\* is exactly one ',' and no '.', that ',' becomes '.'; the leading sign stays in
\* front of the result (whose apostrophes are deleted as well)
C5_DecimalMarker ==
    (Normalized /\ HasDigit(val)) =>
        LET b       == BodyOfCell
            dots    == Len(SelectSeq(b, LAMBDA x : x = "."))
            commas  == Len(SelectSeq(b, LAMBDA x : x = ","))
            result(r) == out = SignOfCell \o Delete(r, "'")
        IN  /\ (dots > 0 /\ commas > 0 /\ LastCommaAfterLastDot)
                   => result(Subst(Delete(b, "."), ",", "."))
            /\ (dots > 0 /\ commas > 0 /\ LastDotAfterLastComma)
                   => result(Delete(b, ","))
            /\ (dots = 0 /\ commas = 1)
                   => result(Subst(b, ",", "."))

\* C5's case happens: -1.234,5, with both separators and a sign, gives -1234.5
C5_Witness ==
    /\ Normalized
    /\ val = <<"-", "1", ".", "2", "3", "4", ",", "5">>
    /\ LastCommaAfterLastDot
    /\ out = <<"-", "1", "2", "3", "4", ".", "5">>

---------------------------------------------------------------------------
(* load_csv, primary strategy (lines 140-205).  header_idx is the result   *)
(* of detect_header_start; text is the file from that line on.  A cell of  *)
(* the table is a str, None, a number (the str it was parsed from) or NaN. *)

Str(s) == [t |-> "str", v |-> s]

NoneCell == [t |-> "none", v |-> <<>>]

Num(s) == [t |-> "num", v |-> s]

NaN == [t |-> "nan", v |-> <<>>]

\* pandas isna
IsNA(c) == c.t \in {"none", "nan"}

\* f.readlines(): each line keeps its line terminator
RECURSIVE ReadLines(_)
ReadLines(t) ==
    IF t = <<>> THEN <<>>
    ELSE IF ~HasChar(t, "\n") THEN <<t>>
    ELSE LET i == Min({j \in DOMAIN t : t[j] = "\n"})
         IN  <<SubSeq(t, 1, i)>> \o ReadLines(SubSeq(t, i + 1, Len(t)))

\* a variant of DetectSep with >= for >
DetectSepTieComma(header_line) ==
    IF Count(header_line, ",") >= Count(header_line, ";") THEN "," ELSE ";"

\* line 149: ',' only when strictly more frequent than ';'
DetectSep(header_line) ==
    IF Count(header_line, ",") > Count(header_line, ";") THEN "," ELSE ";"

\* lines 152 and 166: [v.strip('"').strip() for v in line.split(sep)]
SplitFields(line, d) ==
    LET parts == Split(line, d)
    IN  [k \in DOMAIN parts |-> Strip(StripChars(parts[k], {"\""}))]

\* a variant of NormalizeRow that pads and does not truncate
NormalizeRowNoTruncate(fields, n) ==
    [k \in 1..(IF Len(fields) > n THEN Len(fields) ELSE n) |->
        IF k <= Len(fields) THEN Str(fields[k]) ELSE NoneCell]

\* lines 169-174: pad with None, or truncate, to n fields
NormalizeRow(fields, n) ==
    [k \in 1..n |-> IF k <= Len(fields) THEN Str(fields[k]) ELSE NoneCell]

\* pd.to_numeric(errors='coerce') on one str: a decimal literal parses, anything
\* else of the characters modelled becomes NaN
IsNumericLiteral(s) ==
    LET t     == Strip(s)
        u     == IF t /= <<>> /\ Head(t) \in {"+", "-"} THEN Tail(t) ELSE t
        parts == Split(u, ".")
    IN  /\ HasDigit(u)
        /\ Len(parts) <= 2
        /\ \A k \in DOMAIN parts : \A j \in DOMAIN parts[k] : parts[k][j] \in Digits

ToNumeric(c) == IF c.t = "str" /\ IsNumericLiteral(c.v) THEN Num(c.v) ELSE NaN

\* line 186: the table, column by column; pos is the column's place in the header
MakeFrame(names, rows) ==
    [j \in DOMAIN names |->
        [pos |-> j, name |-> names[j], cells |-> [r \in DOMAIN rows |-> rows[r][j]]]]

\* df.dropna(axis=1, how="all")
DropEmptyColumns(frame) ==
    SelectSeq(frame, LAMBDA col : \E r \in DOMAIN col.cells : ~IsNA(col.cells[r]))

\* line 188: df.replace("", None)
ReplaceEmpty(frame) ==
    [j \in DOMAIN frame |->
        [frame[j] EXCEPT !.cells =
            [r \in DOMAIN @ |-> IF @[r] = Str(<<>>) THEN NoneCell ELSE @[r]]]]

\* line 193: the cell normalizer leaves a non-str (None) as it is
NormalizeCell(c) == IF c.t = "str" THEN Str(_normalize_numeric_cell(c.v)) ELSE c

\* lines 193-196 for one column: the numbers replace the column when there is one
CoerceColumn(col) ==
    LET normed == [r \in DOMAIN col.cells |-> NormalizeCell(col.cells[r])]
        tmp    == [r \in DOMAIN normed |-> ToNumeric(normed[r])]
    IN  IF \E r \in DOMAIN tmp : ~IsNA(tmp[r])
        THEN [col EXCEPT !.cells = tmp]
        ELSE [col EXCEPT !.cells = normed]

\* line 191: df[c] is a DataFrame, with no dtype, when two columns are named c
HasDuplicateNames(frame) ==
    \E j, k \in DOMAIN frame : j /= k /\ frame[j].name = frame[k].name

\* a variant of CleanFrame without the last dropna (line 198)
CleanFrameKeepAll(frame) ==
    LET f1 == ReplaceEmpty(frame)
    IN  [j \in DOMAIN f1 |-> CoerceColumn(f1[j])]

\* lines 186-198 on a table without duplicate names
CleanFrame(frame) ==
    LET f1 == ReplaceEmpty(frame)
        f2 == [j \in DOMAIN f1 |-> CoerceColumn(f1[j])]
    IN  DropEmptyColumns(f2)

\* the files load_csv is run on
MaxFileLen == 6

FileAlphabet == {"\n", ",", ";", "1", "x"}

\* a,b / 1 / "1,5";2;3      a;b / "x" ; 1,5 / ;-      a,b;c / 1
ExampleFiles ==
    { <<"a", ",", "b", "\n", "1", "\n", "7", ",", "2", ",", "3", "\n">>,
      <<"a", ";", "b", "\n", "\"", "x", "\"", " ", ";", " ", "1", ",", "5", "\n",
        ";", "-", "\n">>,
      <<"a", ",", "b", ";", "c", "\n", "1">>,
      <<"a", ",", "b", "\n", "1", ",", "2", "\n", "\n", "x", ",", "\n">> }

InitLoad ==
    /\ pc = "load_start"
    /\ text \in StringsUpTo(FileAlphabet, MaxFileLen) \cup ExampleFiles
    /\ lines = <<>> /\ sep = "" /\ header_cols = <<>> /\ max_cols = 0
    /\ line_no = 0 /\ data_rows = <<>> /\ df = <<>>
    /\ IdleNorm /\ IdleFind /\ IdleName /\ IdleMain /\ IdleFmt

notLoadVars == <<normVars, findVars, nameVars, mainVars, fmtVars>>

\* lines 141-157: read the lines, detect the delimiter, parse the header;
\* no line at all raises, which ends the primary strategy
ReadHeader ==
    /\ pc = "load_start"
    /\ lines' = ReadLines(text)
    /\ IF lines' = <<>>
       THEN /\ pc' = "load_failed"
            /\ UNCHANGED <<sep, header_cols, max_cols, line_no>>
       ELSE LET header_line == Strip(lines'[1])
            IN  /\ sep' = DetectSep(header_line)
                /\ header_cols' = SplitFields(header_line, sep')
                /\ max_cols' = Len(header_cols')
                /\ line_no' = 2
                /\ pc' = "load_rows"
    /\ UNCHANGED <<text, data_rows, df, notLoadVars>>

\* lines 159-176, one iteration of the loop: an empty line is skipped, any
\* other is split and brought to the header's length
ParseLine ==
    /\ pc = "load_rows"
    /\ line_no <= Len(lines)
    /\ LET line == Strip(lines[line_no])
       IN  data_rows' = IF line = <<>> THEN data_rows
                        ELSE Append(data_rows, NormalizeRow(SplitFields(line, sep), max_cols))
    /\ line_no' = line_no + 1
    /\ UNCHANGED <<pc, text, lines, sep, header_cols, max_cols, df, notLoadVars>>

\* lines 182-205, after the loop: no row raises, and so does a column name
\* that is still there twice; otherwise the table is cleaned and returned
BuildFrame ==
    /\ pc = "load_rows"
    /\ line_no > Len(lines)
    /\ LET frame == DropEmptyColumns(MakeFrame(header_cols, data_rows))
       IN  IF data_rows = <<>> \/ HasDuplicateNames(frame)
           THEN pc' = "load_failed" /\ df' = df
           ELSE pc' = "load_done" /\ df' = CleanFrame(frame)
    /\ UNCHANGED <<text, lines, sep, header_cols, max_cols, line_no, data_rows, notLoadVars>>

NextLoad == ReadHeader \/ ParseLine \/ BuildFrame

SpecLoad == InitLoad /\ [][NextLoad]_vars

---------------------------------------------------------------------------
(* Properties of load_csv                                                  *)

HeaderParsed == pc \in {"load_rows", "load_done"} \/ (pc = "load_failed" /\ lines /= <<>>)

\* the data lines the loop has passed that are not empty, stripped
DataLinesSeen ==
    SelectSeq([k \in 1..(line_no - 2) |-> Strip(lines[k + 1])], LAMBDA l : l /= <<>>)

\* C1: every row has exactly max_cols fields: the fields of its line in their
\* places, then None for the missing ones; the fields beyond max_cols are gone
C1_RowsMatchHeader ==
    HeaderParsed =>
        /\ max_cols = Len(header_cols)
        /\ Len(data_rows) = Len(DataLinesSeen)
        /\ \A r \in DOMAIN data_rows :
               LET fields == SplitFields(DataLinesSeen[r], sep)
               IN  /\ Len(data_rows[r]) = max_cols
                   /\ \A k \in 1..max_cols :
                          data_rows[r][k] =
                              IF k <= Len(fields) THEN Str(fields[k]) ELSE NoneCell

\* C1's cases happen: one row was padded and another truncated, and the table
\* was built from them
C1_Witness ==
    /\ pc = "load_done"
    /\ \E r \in DOMAIN data_rows :
           Len(SplitFields(DataLinesSeen[r], sep)) < max_cols
    /\ \E r \in DOMAIN data_rows :
           Len(SplitFields(DataLinesSeen[r], sep)) > max_cols

Commas == Len(SelectSeq(Strip(lines[1]), LAMBDA x : x = ","))

Semicolons == Len(SelectSeq(Strip(lines[1]), LAMBDA x : x = ";"))

\* C2 as claimed: the more frequent of ',' and ';' in the header line is the
\* delimiter, and the comma when they are equally frequent
C2_TieFavoursComma ==
    HeaderParsed =>
        /\ Commas > Semicolons => sep = ","
        /\ Semicolons > Commas => sep = ";"
        /\ Commas = Semicolons => sep = ","

\* C2 as amended: the more frequent of ',' and ';' in the header line is the
\* delimiter, and the semicolon when they are equally frequent
C2_TieFavoursSemicolon ==
    HeaderParsed =>
        /\ Commas > Semicolons => sep = ","
        /\ Semicolons > Commas => sep = ";"
        /\ Commas = Semicolons => sep = ";"

\* C2's case happens: a header with as many ',' as ';', at least one of each
C2_Witness ==
    /\ pc = "load_done"
    /\ Commas = Semicolons
    /\ Commas > 0
    /\ sep = ";"

\* the cells of header column j, as the rows hold them
ColumnOfRows(j) == [r \in DOMAIN data_rows |-> data_rows[r][j]]

Present(j) == \E k \in DOMAIN df : df[k].pos = j

\* C7 as claimed: a column of the table returned has a cell that coerced to a
\* number
C7_OnlyNumericColumns ==
    pc = "load_done" =>
        \A k \in DOMAIN df : \E r \in DOMAIN df[k].cells : df[k].cells[r].t = "num"

\* C7 as amended: a column is in the table returned exactly when one of its
\* cells is neither absent nor the empty string; it holds numbers when one of
\* its cells coerces and keeps its normalized text (it is not dropped) when none
\* does
C7_ColumnKeptIffNonEmpty ==
    pc = "load_done" =>
        /\ \A j \in 1..max_cols :
               Present(j) <=>
                   \E r \in DOMAIN data_rows :
                       ColumnOfRows(j)[r] \notin {NoneCell, Str(<<>>)}
        /\ \A k \in DOMAIN df :
               LET raw    == ColumnOfRows(df[k].pos)
                   normed == [r \in DOMAIN raw |->
                                 IF raw[r] = Str(<<>>) THEN NoneCell
                                 ELSE NormalizeCell(raw[r])]
                   coerces(c) == c.t = "str" /\ IsNumericLiteral(c.v)
               IN  IF \E r \in DOMAIN normed : coerces(normed[r])
                   THEN \A r \in DOMAIN normed :
                            df[k].cells[r].t = IF coerces(normed[r]) THEN "num" ELSE "nan"
                   ELSE df[k].cells = normed

\* C7's cases happen: a column without any number is returned, and another
\* column of the header was dropped
C7_Witness ==
    /\ pc = "load_done"
    /\ \E k \in DOMAIN df : \A r \in DOMAIN df[k].cells : df[k].cells[r].t /= "num"
    /\ \E j \in 1..max_cols : ~Present(j)

---------------------------------------------------------------------------
(* find_column (lines 93-110)                                              *)

Uppers == <<"A", "B", "C", "D", "E", "F", "G", "H", "I", "J", "K", "L", "M",
            "N", "O", "P", "Q", "R", "S", "T", "U", "V", "W", "X", "Y", "Z">>

Lowers == <<"a", "b", "c", "d", "e", "f", "g", "h", "i", "j", "k", "l", "m",
            "n", "o", "p", "q", "r", "s", "t", "u", "v", "w", "x", "y", "z">>

LowerOf == [c \in Range(Uppers) |-> Lowers[CHOOSE i \in DOMAIN Uppers : Uppers[i] = c]]

\* str.lower(), one character
Lower(c) == IF c \in DOMAIN LowerOf THEN LowerOf[c] ELSE c

LowerStr(s) == [i \in DOMAIN s |-> Lower(s[i])]

\* the characters the pattern [^a-z0-9] leaves
LowerAlnum == Range(Lowers) \cup Digits

\* line 95: re.sub(r"[^a-z0-9]+", "", s.strip().lower())
_normalize(s) == SelectSeq(LowerStr(Strip(s)), LAMBDA c : c \in LowerAlnum)

\* needle in hay, for strings
Contains(hay, needle) ==
    \E i \in 0..(Len(hay) - Len(needle)) : SubSeq(hay, i + 1, i + Len(needle)) = needle

Found(c) == [found |-> TRUE, name |-> c]

NotFound == [found |-> FALSE, name |-> <<>>]

\* a variant of find_column whose exact pass scans the columns, not the candidates
find_columnByColumnOrder(cols, cands) ==
    LET ncols   == [j \in DOMAIN cols |-> _normalize(cols[j])]
        ncands  == [k \in DOMAIN cands |-> _normalize(cands[k])]
        exact   == {j \in DOMAIN cols : \E k \in DOMAIN cands : ncols[j] = ncands[k]}
        partial == {j \in DOMAIN cols : \E k \in DOMAIN cands : Contains(ncols[j], ncands[k])}
    IN  IF exact /= {} THEN Found(cols[Min(exact)])
        ELSE IF partial /= {} THEN Found(cols[Min(partial)])
        ELSE NotFound

\* lines 100-110.  norm_cols maps a normalized name to the last column that has
\* it (a dict comprehension keeps the last value of a key)
find_column(cols, cands) ==
    LET ncols   == [j \in DOMAIN cols |-> _normalize(cols[j])]
        ncands  == [k \in DOMAIN cands |-> _normalize(cands[k])]
        norm_cols(n) == cols[Max({j \in DOMAIN cols : ncols[j] = n})]
        exact   == {k \in DOMAIN cands : \E j \in DOMAIN cols : ncols[j] = ncands[k]}
        partial == {j \in DOMAIN cols : \E k \in DOMAIN cands : Contains(ncols[j], ncands[k])}
    IN  IF exact /= {} THEN Found(norm_cols(ncands[Min(exact)]))
        ELSE IF partial /= {} THEN Found(cols[Min(partial)])
        ELSE NotFound

\* the sequences over S of length at most n
RECURSIVE SeqsUpTo(_, _)
SeqsUpTo(S, n) ==
    IF n = 0 THEN {<<>>}
    ELSE LET shorter == SeqsUpTo(S, n - 1)
         IN  shorter \cup {Append(q, x) : q \in shorter, x \in S}

MaxColumns == 2

MaxCandidates == 2

\* FrameTime (ms), frame time (ms), Frame, GPU Frame Time, GPU, and no name
ColumnNames ==
    { <<"F", "r", "a", "m", "e", "T", "i", "m", "e", " ", "(", "m", "s", ")">>,
      <<"f", "r", "a", "m", "e", " ", "t", "i", "m", "e", " ", "(", "m", "s", ")">>,
      <<"F", "r", "a", "m", "e">>,
      <<"G", "P", "U", " ", "F", "r", "a", "m", "e", " ", "T", "i", "m", "e">>,
      <<"G", "P", "U">>,
      <<>> }

\* FrameTime (ms), Frame Time, Frame, GPU, and # (no letter or digit)
CandidateNames ==
    { <<"F", "r", "a", "m", "e", "T", "i", "m", "e", " ", "(", "m", "s", ")">>,
      <<"F", "r", "a", "m", "e", " ", "T", "i", "m", "e">>,
      <<"F", "r", "a", "m", "e">>,
      <<"G", "P", "U">>,
      <<"#">> }

InitFind ==
    /\ pc = "find_start"
    /\ columns \in SeqsUpTo(ColumnNames, MaxColumns)
    /\ candidates \in SeqsUpTo(CandidateNames, MaxCandidates)
    /\ found = NotFound
    /\ IdleNorm /\ IdleLoad /\ IdleName /\ IdleMain /\ IdleFmt

\* one call of find_column
FindColumn ==
    /\ pc = "find_start"
    /\ found' = find_column(columns, candidates)
    /\ pc' = "find_done"
    /\ UNCHANGED <<columns, candidates, normVars, loadVars, nameVars, mainVars, fmtVars>>

NextFind == FindColumn

SpecFind == InitFind /\ [][NextFind]_vars

---------------------------------------------------------------------------
(* Properties of find_column                                               *)

\* the normalized names: lower case, letters and digits only
NormalizedColumns == [j \in DOMAIN columns |-> _normalize(columns[j])]

NormalizedCandidates == [k \in DOMAIN candidates |-> _normalize(candidates[k])]

\* n is a part of h: h is n with something before and something after
IsPartOf(n, h) ==
    \E pre \in 0..(Len(h) - Len(n)) : \A i \in DOMAIN n : h[pre + i] = n[i]

\* the candidates, by index, whose normalized form is the normalized name of a column
ExactCandidatesOf(ncols, ncands) ==
    {k \in DOMAIN ncands : \E j \in DOMAIN ncols : ncols[j] = ncands[k]}

ExactCandidates == ExactCandidatesOf(NormalizedColumns, NormalizedCandidates)

\* the columns, by index, whose normalized name contains a candidate's normalized form
ContainingColumnsOf(ncols, ncands) ==
    {j \in DOMAIN ncols : \E k \in DOMAIN ncands : IsPartOf(ncands[k], ncols[j])}

ContainingColumns == ContainingColumnsOf(NormalizedColumns, NormalizedCandidates)

\* C6: with an exact match, the result is a column whose normalized name is the
\* normalized form of the earliest candidate that has one; without, it is the
\* first column whose normalized name contains a candidate's normalized form;
\* without that either, it is the not-found marker
C6_ExactThenSubstring ==
    pc = "find_done" =>
        LET ncols  == NormalizedColumns
            ncands == NormalizedCandidates
            exact  == ExactCandidatesOf(ncols, ncands)
            within == ContainingColumnsOf(ncols, ncands)
        IN  IF exact /= {}
            THEN /\ found.found
                 /\ found.name \in Range(columns)
                 /\ _normalize(found.name) = ncands[Min(exact)]
            ELSE IF within /= {}
            THEN found = Found(columns[Min(within)])
            ELSE found = NotFound

\* C6's case happens: the second candidate matches the second column exactly
\* and is returned, though the first column contains a candidate as a substring
\* and matches none exactly
C6_Witness ==
    /\ pc = "find_done"
    /\ Len(columns) = 2
    /\ ExactCandidates = {2}
    /\ 1 \in ContainingColumns
    /\ \A k \in DOMAIN candidates : NormalizedColumns[1] /= NormalizedCandidates[k]
    /\ found = Found(columns[2])
    /\ columns[2] /= columns[1]

---------------------------------------------------------------------------
(* parse_filename (lines 236-247).  The pattern, searched ignoring case, is *)
(*   EXP[_-]?(?P<scene>\d+).*?(?P<variant>[AB]).*?(?:Messung|Run|Lauf)[_-]?(?P<run>\d+)? *)
(* A name holds no line break, so '.' matches every character of it.       *)

UpperOf == [c \in Range(Lowers) |-> Uppers[CHOOSE i \in DOMAIN Lowers : Lowers[i] = c]]

\* str.upper(), one character
Upper(c) == IF c \in DOMAIN UpperOf THEN UpperOf[c] ELSE c

\* the literal lit stands in s at position p
At(s, p, lit) == p + Len(lit) - 1 <= Len(s) /\ SubSeq(s, p, p + Len(lit) - 1) = lit

\* the alternation (?:Messung|Run|Lauf), lower-cased
RunTokens == { <<"m", "e", "s", "s", "u", "n", "g">>, <<"r", "u", "n">>, <<"l", "a", "u", "f">> }

Separators == {"_", "-"}

\* the end of the longest run of digits of s that starts at p (p - 1 when s has
\* no digit at p)
RECURSIVE DigitsEnd(_, _)
DigitsEnd(s, p) ==
    IF p <= Len(s) /\ s[p] \in Digits THEN DigitsEnd(s, p + 1) ELSE p - 1

\* the end of the token that stands at t (there is at most one: the three
\* tokens start with different letters)
TokenEnd(low, t) ==
    t + Len(CHOOSE tok \in RunTokens : At(low, t, tok)) - 1

\* the ways the pattern matches in n, up to its last mandatory part: the start p
\* of EXP, whether [_-]? takes a character, the end e of the scene's digits, the
\* place v of the variant, the start t and the end u of the token
Matches(n) ==
    LET low      == LowerStr(n)
        starts   == {p \in DOMAIN n : At(low, p, <<"e", "x", "p">>)}
        seps(p)  == IF p + 3 <= Len(n) /\ low[p + 3] \in Separators THEN {0, 1} ELSE {0}
        ends(d)  == d..DigitsEnd(low, d)
        vars_(e) == {v \in (e + 1)..Len(n) : low[v] \in {"a", "b"}}
        toks(v)  == {t \in (v + 1)..Len(n) : \E tok \in RunTokens : At(low, t, tok)}
    IN  UNION { UNION { UNION { UNION { {
            [p |-> p, sp |-> sp, e |-> e, v |-> v, t |-> t, u |-> TokenEnd(low, t)]
                : t \in toks(v) } : v \in vars_(e) } : e \in ends(p + 3 + sp) }
                    : sp \in seps(p) } : p \in starts }

\* the match re.search returns: the leftmost start; then, by backtracking order,
\* the greedy [_-]? and \d+ take all they can and the lazy .*? as little
FirstMatch(n) ==
    LET M  == Matches(n)
        M1 == {m \in M : \A x \in M : m.p <= x.p}
        M2 == {m \in M1 : \A x \in M1 : m.sp >= x.sp}
        M3 == {m \in M2 : \A x \in M2 : m.e >= x.e}
        M4 == {m \in M3 : \A x \in M3 : m.v <= x.v}
        M5 == {m \in M4 : \A x \in M4 : m.t <= x.t}
    IN  CHOOSE m \in M5 : TRUE

\* the group run of the match m: the greedy [_-]? then the greedy digits, None
\* (here the empty string) when no digit follows
RunGroup(n, m) ==
    LET d == IF m.u + 1 <= Len(n) /\ n[m.u + 1] \in Separators THEN m.u + 2 ELSE m.u + 1
    IN  SubSeq(n, d, DigitsEnd(n, d))

Identity(scene, variant, run) == [scene |-> scene, variant |-> variant, run |-> run]

\* lines 243-247
parse_filename(n) ==
    IF Matches(n) = {} THEN Identity(<<"1">>, <<"?">>, <<"1">>)
    ELSE LET m   == FirstMatch(n)
             run == RunGroup(n, m)
         IN  Identity(SubSeq(n, m.p + 3 + m.sp, m.e),
                      <<Upper(n[m.v])>>,
                      IF run /= <<>> THEN run ELSE <<"1">>)

\* the names parse_filename is run on: up to MaxSegments of these pieces in a
\* row, and the examples
MaxSegments == 5

NameSegments == { <<"E", "X", "P">>, <<"_">>, <<"1">>, <<"2">>, <<"A">>, <<"b">>, <<"R", "u", "n">>, <<"L", "a", "u", "f">> }

\* EXP_1_A_Messung_1.csv, weird_name.csv, EXP_2_B.csv, exp-12xB_lauf-07.csv
ExampleNames ==
    { <<"E", "X", "P", "_", "1", "_", "A", "_", "M", "e", "s", "s", "u", "n", "g", "_", "1", ".", "c", "s", "v">>,
      <<"w", "e", "i", "r", "d", "_", "n", "a", "m", "e", ".", "c", "s", "v">>,
      <<"E", "X", "P", "_", "2", "_", "B", ".", "c", "s", "v">>,
      <<"e", "x", "p", "-", "1", "2", "x", "B", "_", "l", "a", "u", "f", "-", "0", "7", ".", "c", "s", "v">> }

NamesUpTo(n) == {Join(segs) : segs \in SeqsUpTo(NameSegments, n)} \cup ExampleNames

InitName ==
    /\ pc = "name_start"
    /\ path_name \in NamesUpTo(MaxSegments)
    /\ identity = <<>>
    /\ IdleNorm /\ IdleLoad /\ IdleFind /\ IdleMain /\ IdleFmt

\* one call of parse_filename
ParseFilename ==
    /\ pc = "name_start"
    /\ identity' = parse_filename(path_name)
    /\ pc' = "name_done"
    /\ UNCHANGED <<path_name, normVars, loadVars, findVars, mainVars, fmtVars>>

NextName == ParseFilename

SpecName == InitName /\ [][NextName]_vars

---------------------------------------------------------------------------
(* Properties of parse_filename                                            *)

\* what the name supplies, group by group: the scene is the digits after the
\* first EXP[_-]? that has digits; the variant is the first A or B after them;
\* the run is the digits after the first token (and [_-]?) behind the variant
ScenePlaces ==
    LET low == LowerStr(path_name)
    IN  {p \in DOMAIN low :
            /\ At(low, p, <<"e", "x", "p">>)
            /\ \E d \in {p + 3, p + 4} :
                   /\ d <= Len(low) /\ low[d] \in Digits
                   /\ d = p + 4 => low[p + 3] \in Separators}

SceneStart ==
    LET p == Min(ScenePlaces)
    IN  IF path_name[p + 3] \in Digits THEN p + 3 ELSE p + 4

SceneEnd == DigitsEnd(path_name, SceneStart)

VariantPlaces ==
    IF ScenePlaces = {} THEN {}
    ELSE {v \in DOMAIN path_name : v > SceneEnd /\ path_name[v] \in {"A", "B", "a", "b"}}

TokenPlaces ==
    IF VariantPlaces = {} THEN {}
    ELSE {t \in DOMAIN path_name :
             /\ t > Min(VariantPlaces)
             /\ \E tok \in RunTokens : At(LowerStr(path_name), t, tok)}

\* C8: each group keeps its parsed value when the name supplies it and takes its
\* default (scene 1, variant ?, run 1) only when the name does not, whatever the
\* other groups do
C8_GroupsFallBackIndependently ==
    pc = "name_done" =>
        /\ identity.scene =
               IF ScenePlaces /= {} THEN SubSeq(path_name, SceneStart, SceneEnd)
               ELSE <<"1">>
        /\ identity.variant =
               IF VariantPlaces /= {} THEN <<Upper(path_name[Min(VariantPlaces)])>>
               ELSE <<"?">>
        /\ TokenPlaces = {} => identity.run = <<"1">>

---------------------------------------------------------------------------
(* main (lines 316-429): the loop over the files and the report.  Two       *)
(* executions of main over the same directory are modelled side by side:    *)
(* csv_files[e] is the order in which execution e's glob lists the files.   *)
(* What load_csv and collect_metrics return is a function of the file, so a *)
(* record is modelled by its identity and its file.                         *)

\* int(s) for a string of digits
RECURSIVE DigitsToInt(_)
DigitsToInt(s) ==
    IF s = <<>> THEN 0
    ELSE 10 * DigitsToInt(SubSeq(s, 1, Len(s) - 1))
         + (CHOOSE d \in 0..9 : ToString(d) = s[Len(s)])

\* line 373: the first run of digits of the run, as an integer
run_ord(rec) ==
    LET d == Min({i \in DOMAIN rec.run : rec.run[i] \in Digits})
    IN  DigitsToInt(SubSeq(rec.run, d, DigitsEnd(rec.run, d)))

\* the order of str for the characters of a scene and a variant
CodePoints == <<"-", "0", "1", "2", "3", "4", "5", "6", "7", "8", "9", "?", "A", "B">>

CodePoint(c) == CHOOSE i \in DOMAIN CodePoints : CodePoints[i] = c

\* a < b for str
RECURSIVE StrLess(_, _)
StrLess(a, b) ==
    IF b = <<>> THEN FALSE
    ELSE IF a = <<>> THEN TRUE
    ELSE IF Head(a) = Head(b) THEN StrLess(Tail(a), Tail(b))
    ELSE CodePoint(Head(a)) < CodePoint(Head(b))

\* the order of the group keys (scene, variant)
KeyLess(k1, k2) ==
    \/ StrLess(k1[1], k2[1])
    \/ k1[1] = k2[1] /\ StrLess(k1[2], k2[2])

KeyOf(rec) == <<rec.scene, rec.variant>>

\* line 393: groupby(['scene', 'variant']) yields the groups in the order of
\* their keys
RECURSIVE SortKeys(_)
SortKeys(K) ==
    IF K = {} THEN <<>>
    ELSE LET k == CHOOSE x \in K : \A y \in K : y = x \/ KeyLess(x, y)
         IN  <<k>> \o SortKeys(K \ {k})

\* a group holds its records in the order of the frame
Group(rs, k) == SelectSeq(rs, LAMBDA rec : KeyOf(rec) = k)

Perms(n) == {f \in [1..n -> 1..n] : \A i, j \in 1..n : f[i] = f[j] => i = j}

\* line 395: grp.sort_values(['run_ord']) with the default kind, quicksort,
\* which is not stable: any order of the records that is sorted by run_ord
SortedByRunOrd(grp) ==
    { [i \in DOMAIN grp |-> grp[f[i]]] : f \in
        {g \in Perms(Len(grp)) :
            \A i, j \in DOMAIN grp : i < j => run_ord(grp[g[i]]) <= run_ord(grp[g[j]])} }

\* lines 393-411: one sheet per group; its run columns are the sorted records
Sheets(rs) ==
    LET keys == SortKeys({KeyOf(rs[i]) : i \in DOMAIN rs})
    IN  { sh \in [DOMAIN keys ->
                    UNION {SortedByRunOrd(Group(rs, keys[g])) : g \in DOMAIN keys}] :
            \A g \in DOMAIN keys : sh[g] \in SortedByRunOrd(Group(rs, keys[g])) }

\* lines 341-346: the record of one file
Record(file) ==
    LET id == parse_filename(file)
    IN  [scene |-> id.scene, variant |-> id.variant, run |-> id.run, file |-> file]

\* the directory: at most MaxFiles of these files, any of which load_csv may
\* fail to load
MaxFiles == 3

\* EXP_1_A_Run_1.csv  EXP_1_A_Lauf_01.csv  EXP_1_A_Run_2.csv  EXP_1_A_Run_10.csv
\* EXP_2_B_Run_1.csv
DirectoryFiles ==
    { <<"E", "X", "P", "_", "1", "_", "A", "_", "R", "u", "n", "_", "1", ".", "c", "s", "v">>,
      <<"E", "X", "P", "_", "1", "_", "A", "_", "L", "a", "u", "f", "_", "0", "1", ".", "c", "s", "v">>,
      <<"E", "X", "P", "_", "1", "_", "A", "_", "R", "u", "n", "_", "2", ".", "c", "s", "v">>,
      <<"E", "X", "P", "_", "1", "_", "A", "_", "R", "u", "n", "_", "1", "0", ".", "c", "s", "v">>,
      <<"E", "X", "P", "_", "2", "_", "B", "_", "R", "u", "n", "_", "1", ".", "c", "s", "v">> }

\* the orders in which a glob may list the files of S
Orders(S) ==
    { q \in [1..Cardinality(S) -> S] : \A i, j \in DOMAIN q : q[i] = q[j] => i = j }

InitMain ==
    /\ \E S \in SUBSET DirectoryFiles :
           /\ Cardinality(S) <= MaxFiles
           /\ csv_files \in Orders(S) \X Orders(S)
           /\ unloadable \in SUBSET S
    /\ pc = <<"loop", "wait">>
    /\ file_idx = <<1, 1>>
    /\ runs = <<<<>>, <<>>>>
    /\ report = <<<<>>, <<>>>>
    /\ IdleNorm /\ IdleLoad /\ IdleFind /\ IdleName /\ IdleFmt

notMainVars == <<normVars, loadVars, findVars, nameVars, fmtVars>>

\* lines 331-334: no file found, main returns
NoFiles(e) ==
    /\ pc[e] = "loop"
    /\ csv_files[e] = <<>>
    /\ pc' = [pc EXCEPT ![e] = "no_files"]
    /\ UNCHANGED <<csv_files, unloadable, file_idx, runs, report, notMainVars>>

\* lines 340-357, one iteration: the record of a file that loads is appended;
\* a file that does not load is reported and skipped
ProcessFile(e) ==
    /\ pc[e] = "loop"
    /\ file_idx[e] <= Len(csv_files[e])
    /\ LET path == csv_files[e][file_idx[e]]
       IN  runs' = [runs EXCEPT ![e] =
                       IF path \in unloadable THEN @ ELSE Append(@, Record(path))]
    /\ file_idx' = [file_idx EXCEPT ![e] = @ + 1]
    /\ UNCHANGED <<pc, csv_files, unloadable, report, notMainVars>>

\* lines 359-361: no file was processed, main returns without a report
NoRuns(e) ==
    /\ pc[e] = "loop"
    /\ csv_files[e] /= <<>>
    /\ file_idx[e] > Len(csv_files[e])
    /\ runs[e] = <<>>
    /\ pc' = [pc EXCEPT ![e] = "no_runs"]
    /\ UNCHANGED <<csv_files, unloadable, file_idx, runs, report, notMainVars>>

\* lines 364-427: the workbook is built and saved
WriteReport(e) ==
    /\ pc[e] = "loop"
    /\ file_idx[e] > Len(csv_files[e])
    /\ runs[e] /= <<>>
    /\ \E sh \in Sheets(runs[e]) : report' = [report EXCEPT ![e] = sh]
    /\ pc' = [pc EXCEPT ![e] = "done"]
    /\ UNCHANGED <<csv_files, unloadable, file_idx, runs, notMainVars>>

\* the second execution starts when the first has ended
StartSecond ==
    /\ pc[1] \in {"no_files", "no_runs", "done"}
    /\ pc[2] = "wait"
    /\ pc' = [pc EXCEPT ![2] = "loop"]
    /\ UNCHANGED <<csv_files, unloadable, file_idx, runs, report, notMainVars>>

NextMain ==
    \/ StartSecond
    \/ \E e \in {1, 2} : NoFiles(e)
    \/ \E e \in {1, 2} : ProcessFile(e)
    \/ \E e \in {1, 2} : NoRuns(e)
    \/ \E e \in {1, 2} : WriteReport(e)

SpecMain == InitMain /\ [][NextMain]_vars

---------------------------------------------------------------------------
(* Properties of main                                                      *)

\* C9: two executions over the same files, whatever the two orders of
\* processing, write the same sheets with the same run columns from left to
\* right, and the run columns of a sheet are in non-decreasing order of the
\* integer run key
C9_ReportIndependentOfOrder ==
    (pc[1] = "done" /\ pc[2] = "done") =>
        /\ report[1] = report[2]
        /\ \A e \in {1, 2} : \A g \in DOMAIN report[e] :
               \A i, j \in DOMAIN report[e][g] :
                   i < j => run_ord(report[e][g][i]) <= run_ord(report[e][g][j])

---------------------------------------------------------------------------
(* format_number (lines 287-314).  A finite value is a float with FracBits  *)
(* binary places: whole + frac / 2^FracBits, negated when neg.  round() and *)
(* the format round such a value exactly, a half to the even neighbour.     *)
(* The other values are NaN and the two infinities.                         *)

FracBits == 11

Denominator == 2 ^ FracBits

Finite(neg, whole, frac) == [kind |-> "finite", neg |-> neg, whole |-> whole, frac |-> frac]

NonFinite ==
    { [kind |-> "nan", neg |-> FALSE, whole |-> 0, frac |-> 0],
      [kind |-> "inf", neg |-> FALSE, whole |-> 0, frac |-> 0],
      [kind |-> "inf", neg |-> TRUE, whole |-> 0, frac |-> 0] }

\* round of the magnitude (v.whole + v.frac / Denominator) * scale to the
\* nearest integer, a half to the even one; round() is symmetric in the sign
RoundMagnitude(v, scale) ==
    LET q    == (v.frac * scale) \div Denominator
        r    == (v.frac * scale) % Denominator
        base == v.whole * scale + q
    IN  IF 2 * r < Denominator THEN base
        ELSE IF 2 * r > Denominator THEN base + 1
        ELSE IF base % 2 = 0 THEN base ELSE base + 1

Abs(n) == IF n < 0 THEN -n ELSE n

\* str(n) for n >= 0
RECURSIVE NatToStr(_)
NatToStr(n) ==
    IF n < 10 THEN <<ToString(n)>> ELSE Append(NatToStr(n \div 10), ToString(n % 10))

\* lines 299-302: the digits in groups of three from the right, NBSP between
RECURSIVE GroupDigits(_)
GroupDigits(s) ==
    IF Len(s) <= 3 THEN s
    ELSE GroupDigits(SubSeq(s, 1, Len(s) - 3)) \o <<NBSP>> \o SubSeq(s, Len(s) - 2, Len(s))

\* lines 297-303
group_with_nbsp(n) ==
    (IF n < 0 THEN <<"-">> ELSE <<>>) \o GroupDigits(NatToStr(Abs(n)))

\* lines 305-309 with decimals = 3.  milli is the magnitude of the rounded
\* value in thousandths.  int_part, the text before the '.', has the '-' of a
\* negative value; int(int_part) is the number only, so that "-0" gives 0
format_decimal(v) ==
    LET milli    == RoundMagnitude(v, 1000)
        frac     == NatToStr(milli % 1000)
        dec_part == SubSeq(<<"0", "0">>, 1, 3 - Len(frac)) \o frac
        int_part == IF v.neg THEN -(milli \div 1000) ELSE milli \div 1000
    IN  group_with_nbsp(int_part) \o <<",">> \o dec_part

\* line 311 (the labels are written here without their average sign)
integer_labels == {"N", "Draw Calls [#]", "Primitives [#]"}

\* lines 293-314
format_number(l, v) ==
    IF v.kind /= "finite" THEN <<>>
    ELSE IF l \in integer_labels
    THEN group_with_nbsp(IF v.neg THEN -RoundMagnitude(v, 1) ELSE RoundMagnitude(v, 1))
    ELSE format_decimal(v)

\* the values format_number is run on: every float with FracBits binary places
\* next to one of these whole numbers, of either sign, and the non-finite ones
WholeParts == {0, 1, 999, 1000, 12345, 1234567}

ValuesWithin(d) ==
    {Finite(neg, w, f) : neg \in BOOLEAN, w \in WholeParts, f \in 0..(d - 1)} \cup NonFinite

LabelsUnderTest == {"N", "Frametime [ms]"}

InitFmt ==
    /\ pc = "fmt_start"
    /\ label \in LabelsUnderTest
    /\ value \in ValuesWithin(Denominator)
    /\ formatted = <<>>
    /\ IdleNorm /\ IdleLoad /\ IdleFind /\ IdleName /\ IdleMain

\* one call of format_number
FormatNumber ==
    /\ pc = "fmt_start"
    /\ formatted' = format_number(label, value)
    /\ pc' = "fmt_done"
    /\ UNCHANGED <<label, value, normVars, loadVars, findVars, nameVars, mainVars>>

NextFmt == FormatNumber

SpecFmt == InitFmt /\ [][NextFmt]_vars

---------------------------------------------------------------------------
(* Properties of format_number                                             *)

\* the text read back as a number of thousandths: the NBSP removed, the ','
\* read as the decimal point before three decimals
ReadBackMilli(s) ==
    LET plain    == SelectSeq(s, LAMBDA c : c \notin {NBSP, ","})
        negative == plain /= <<>> /\ plain[1] = "-"
        digits   == IF negative THEN Tail(plain) ELSE plain
    IN  IF negative THEN -DigitsToInt(digits) ELSE DigitsToInt(digits)

\* the value rounded to three decimals, in thousandths
RoundedMilli(v) == IF v.neg THEN -RoundMagnitude(v, 1000) ELSE RoundMagnitude(v, 1000)

\* C10: for a label that is not an integer label, the text of a finite value
\* reads back as the value rounded to three decimals, sign included
C10_ReadsBackRounded ==
    (pc = "fmt_done" /\ value.kind = "finite" /\ label \notin integer_labels) =>
        ReadBackMilli(formatted) = RoundedMilli(value)

===========================================================================
